---------------------------- MODULE Spec2Model ----------------------------
(***************************************************************************)
(* A model of findimg (SmilyOrg/findimg, main.go): the scale-pyramid       *)
(* search findImage, the parallel per-scale matcher                        *)
(* convolutionTopKParallel with its worker goroutines and fan-in channel,  *)
(* the difference metric sumOfAbsDiffRGBA, resizeImage and Match.Scale,    *)
(* and main's passing of the flags and printing of the matches.            *)
(*                                                                         *)
(* History.  origin and visits record what findImage did (which level and  *)
(* which unscaled list the stored result comes from, the widths and        *)
(* divisors its loops entered); no action reads them.                      *)
(*                                                                         *)
(* Numbers.  Go's float64 values are modelled as exact rationals in lowest *)
(* terms ([n, d], d > 0), and int(f) as truncation toward zero.  For the   *)
(* raster sizes of findImage's specification every product the code        *)
(* truncates is either an exact double or further from an integer than the *)
(* rounding error, so the truncations agree with the code's.  Where a      *)
(* product can land just short of an integer (Match.Scale at a scale that  *)
(* is a rounded double), ScaleCoord gives both outcomes.  Scores of equal  *)
(* fractions computed from different sums can differ in the last place:    *)
(* FloatCmp leaves their comparison open and ulps remembers its outcome.   *)
(*                                                                         *)
(* Rasters.  An *image.RGBA with Rect (0,0)-(W,H) is [W, H, Pix]; Pix is   *)
(* the flat pixel buffer, one <<R, G, B>> per pixel (Stride = W pixels),   *)
(* addressed through PixOffset as the code does.  The alpha byte is never  *)
(* read by the matcher (main.go:511-514) and is left out.                  *)
(***************************************************************************)
EXTENDS Integers, Sequences, FiniteSets, TLC

----------------------------------------------------------------------------
(* Arithmetic helpers *)

Abs(x) == IF x < 0 THEN -x ELSE x

Min2(a, b) == IF a < b THEN a ELSE b

RECURSIVE GCD(_, _)
GCD(a, b) == IF b = 0 THEN a ELSE GCD(b, a % b)

\* A float64 value as a rational in lowest terms, d > 0.
Rat(n, d) ==
    LET g == GCD(Abs(n), Abs(d))
        s == IF d < 0 THEN -1 ELSE 1
    IN  [n |-> s * (n \div g), d |-> s * (d \div g)]

RatOfInt(i) == [n |-> i, d |-> 1]

RatLess(a, b) == a.n * b.d < b.n * a.d

RatMul(a, b) == Rat(a.n * b.n, a.d * b.d)

\* Go's int(f) of a float64: truncation toward zero.
Trunc(n, d) ==
    IF d < 0 THEN (IF -n >= 0 THEN (-n) \div (-d) ELSE -(n \div (-d)))
    ELSE IF n >= 0 THEN n \div d ELSE -((-n) \div d)

TruncRat(r) == Trunc(r.n, r.d)

Sign(i) == IF i < 0 THEN -1 ELSE IF i > 0 THEN 1 ELSE 0

----------------------------------------------------------------------------
(* Rasters and rectangles *)

\* image.Rect(x0, y0, x1, y1): the corners are put in order.
Rect(x0, y0, x1, y1) ==
    [MinX |-> Min2(x0, x1), MinY |-> Min2(y0, y1),
     MaxX |-> IF x0 > x1 THEN x0 ELSE x1, MaxY |-> IF y0 > y1 THEN y0 ELSE y1]

Dx(r) == r.MaxX - r.MinX
Dy(r) == r.MaxY - r.MinY

\* The zero value of image.Rectangle.
ZeroRect == [MinX |-> 0, MinY |-> 0, MaxX |-> 0, MaxY |-> 0]

\* (*image.RGBA).PixOffset for a raster with Rect.Min = (0,0), in pixels.
PixOffset(img, x, y) == y * img.W + x

\* A raster of w x h pixels whose pixel (x, y) is f[x, y].
MkRaster(w, h, f) ==
    [W |-> w, H |-> h,
     Pix |-> [i \in 1..(w * h) |-> f[(i - 1) % w, (i - 1) \div w]]]

At(img, x, y) == img.Pix[PixOffset(img, x, y) + 1]


----------------------------------------------------------------------------
(* resizeImage, main.go:828-850 *)

\* The target size resizeImage allocates: a zero width or height is derived
\* from the other one and the source's aspect ratio, and both are raised to 1.
\* With a source of zero height (width) the quotient is 0 / 0 in every call
\* findImage makes, a NaN: int(NaN) is the least int64 on amd64 and 0 on
\* arm64, and either is raised to 1 like a 0.
ResizeDims(srcW, srcH, width, height) ==
    LET w0 == IF width # 0 THEN width
              ELSE IF srcH = 0 THEN 0 ELSE Trunc(height * srcW, srcH)
        h0 == IF width = 0 \/ height # 0 THEN height
              ELSE IF srcW = 0 THEN 0 ELSE Trunc(width * srcH, srcW)
    IN  [W |-> IF w0 < 1 THEN 1 ELSE w0, H |-> IF h0 < 1 THEN 1 ELSE h0]

\* draw.CatmullRom.Scale is golang.org/x/image code outside the repository.
\* Its result is represented by sampling the source at the centre of each
\* target pixel: like the filter it is the identity at equal sizes and maps a
\* uniform raster to a uniform raster.  Scaling from an empty source draws
\* nothing: the target keeps the zero pixels image.NewRGBA gave it.
Resample(src, w, h) ==
    LET sx(x) == Min2(src.W - 1, ((2 * x + 1) * src.W) \div (2 * w))
        sy(y) == Min2(src.H - 1, ((2 * y + 1) * src.H) \div (2 * h))
        px == [x \in 0..(w - 1), y \in 0..(h - 1) |->
                 IF src.W = 0 \/ src.H = 0 THEN <<0, 0, 0>> ELSE At(src, sx(x), sy(y))]
    IN  MkRaster(w, h, px)

resizeImage(img, width, height) ==
    LET d == ResizeDims(img.W, img.H, width, height)
    IN  Resample(img, d.W, d.H)

----------------------------------------------------------------------------
(* The difference metric, main.go:494-518 and 768-776 *)

\* v := int32(a) - int32(b); m := v >> 31; (v + m) ^ m.  m is 0 or -1, and
\* x ^ -1 is the two's complement NOT of x, -x - 1.
bitwiseAbsDiff(a, b) ==
    LET v == a - b
        m == IF v < 0 THEN -1 ELSE 0
    IN  IF m = 0 THEN v + m ELSE -(v + m) - 1

rgbAbsSumSliceBitwise(a, b) ==
    bitwiseAbsDiff(a[1], b[1]) + bitwiseAbsDiff(a[2], b[2]) + bitwiseAbsDiff(a[3], b[3])

\* ipix[i:i+3:i+3] panics when pixel i is outside the buffer.
InPix(img, i) == i >= 0 /\ i < Len(img.Pix)

\* Whether sumOfAbsDiffRGBA(img, x, y, subimg) slices outside img.Pix.
SadPanics(img, x, y, subimg) ==
    \E nx \in 0..(subimg.W - 1), ny \in 0..(subimg.H - 1) :
        ~InPix(img, PixOffset(img, x + nx, y + ny))

RECURSIVE SadFrom(_, _, _, _, _)
SadFrom(img, x, y, subimg, j) ==
    IF j >= subimg.W * subimg.H THEN 0
    ELSE LET nx == j % subimg.W
             ny == j \div subimg.W
         IN  rgbAbsSumSliceBitwise(img.Pix[PixOffset(img, x + nx, y + ny) + 1],
                                   subimg.Pix[PixOffset(subimg, nx, ny) + 1])
             + SadFrom(img, x, y, subimg, j + 1)

\* The uint32 sum cannot wrap for needles of fewer than 2^32 / 765 pixels.
sumOfAbsDiffRGBA(img, x, y, subimg) == SadFrom(img, x, y, subimg, 0)

----------------------------------------------------------------------------
(* Match and Matches, main.go:43-64 and 520-523 *)

\* Match{Bounds, Match}: Match holds the raw sum until the matcher normalises it.
MkMatch(bounds, score) == [Bounds |-> bounds, Match |-> score]

\* The zero value of Match, as found in a freshly made slice's backing array.
ZeroMatch == MkMatch(ZeroRect, RatOfInt(0))

RECURSIVE IsPow2(_)
IsPow2(n) == n = 1 \/ (n > 1 /\ n % 2 = 0 /\ IsPow2(n \div 2))

\* Whether float64 holds the scale exactly however it was computed, as
\* a / b or as 1 / (a / b): numerator and denominator are powers of two.
\* Products of such a scale with a coordinate are exact too.
ExactScale(scale) == IsPow2(scale.n) /\ IsPow2(scale.d)

\* ScaleCoord rounding up in place of truncating.
ScaleCoord_RoundUp(c, scale) ==
    LET p == RatMul(RatOfInt(c), scale)
    IN  {(p.n + p.d - 1) \div p.d}

\* int(float64(c) * scale): the values the conversion can give.  A product
\* that is no integer as a fraction is further from the next integer than the
\* rounding error, so truncation gives its integer part.  A product that is an
\* integer as a fraction, of a scale that is a rounded double, can land just
\* short of that integer, and truncation then gives the integer next to it
\* towards zero.
ScaleCoord(c, scale) ==
    LET p == RatMul(RatOfInt(c), scale)
        t == TruncRat(p)
    IN  IF ExactScale(scale) \/ p.d # 1 \/ t = 0 THEN {t}
        ELSE {t, t - Sign(t)}

\* The values Match.Scale can return.
MatchScale(m, scale) ==
    {[m EXCEPT !.Bounds = [MinX |-> x0, MinY |-> y0, MaxX |-> x1, MaxY |-> y1]] :
        x0 \in ScaleCoord(m.Bounds.MinX, scale),
        y0 \in ScaleCoord(m.Bounds.MinY, scale),
        x1 \in ScaleCoord(m.Bounds.MaxX, scale),
        y1 \in ScaleCoord(m.Bounds.MaxY, scale)}

\* The values Matches.Scale can leave in the slice.
RECURSIVE MatchesScale(_, _)
MatchesScale(ms, scale) ==
    IF ms = <<>> THEN {<<>>}
    ELSE {<<m>> \o t : m \in MatchScale(Head(ms), scale),
                        t \in MatchesScale(Tail(ms), scale)}

----------------------------------------------------------------------------
(* Options, main.go:91-112 and 192-214 *)

DEFAULT_OPTS ==
    [k |-> 6, imgMinWidth |-> 8, imgMaxWidth |-> 256, subMaxDiv |-> 64,
     subMinArea |-> 5 * 5]

OrDefault(v, def) == IF v = 0 THEN def ELSE v

\* EffectiveOpts without the lowering of imgMaxWidth to the haystack's width.
EffectiveOpts_NoLowering(o, srcW) ==
    [imgMinWidth |-> OrDefault(o.imgMinWidth, DEFAULT_OPTS.imgMinWidth),
     imgMaxWidth |-> OrDefault(o.imgMaxWidth, DEFAULT_OPTS.imgMaxWidth),
     subMinArea  |-> OrDefault(o.subMinArea, DEFAULT_OPTS.subMinArea),
     subMaxDiv   |-> OrDefault(o.subMaxDiv, DEFAULT_OPTS.subMaxDiv),
     k           |-> OrDefault(o.k, DEFAULT_OPTS.k)]

\* The options findImage works with: zero fields replaced, imgMaxWidth
\* lowered to the haystack's width.
EffectiveOpts(o, srcW) ==
    LET maxW == OrDefault(o.imgMaxWidth, DEFAULT_OPTS.imgMaxWidth)
    IN  [imgMinWidth |-> OrDefault(o.imgMinWidth, DEFAULT_OPTS.imgMinWidth),
         imgMaxWidth |-> IF srcW < maxW THEN srcW ELSE maxW,
         subMinArea  |-> OrDefault(o.subMinArea, DEFAULT_OPTS.subMinArea),
         subMaxDiv   |-> OrDefault(o.subMaxDiv, DEFAULT_OPTS.subMaxDiv),
         k           |-> OrDefault(o.k, DEFAULT_OPTS.k)]

----------------------------------------------------------------------------
(* The worker's bounded candidate list, main.go:662-677 *)

\* Index (from 1) of the largest retained sum, the lowest index on ties:
\* maxDiffIndex := 0; for i := 1; i < k; i++ { if minSums[i] > minSums[maxDiffIndex] ... }
RECURSIVE MaxDiffFrom(_, _, _, _)
MaxDiffFrom(minSums, k, i, best) ==
    IF i > k THEN best
    ELSE MaxDiffFrom(minSums, k, i + 1,
                     IF minSums[i] > minSums[best] THEN i ELSE best)

maxDiffIndex(minSums, k) == MaxDiffFrom(minSums, k, 2, 1)

\* Retain without the replacement policy: every offset is appended.
Retain_Unbounded(ms, minSums, k, b, sum) ==
    [matches |-> Append(ms, MkMatch(b, RatOfInt(sum))),
     minSums |-> Append(minSums, sum)]

\* Retain without replacement: the first k offsets scanned are kept.
Retain_FirstK(ms, minSums, k, b, sum) ==
    IF Len(ms) < k
    THEN [matches |-> Append(ms, MkMatch(b, RatOfInt(sum))),
          minSums |-> Append(minSums, sum)]
    ELSE [matches |-> ms, minSums |-> minSums]

\* One pass of the loop body for an offset with bounds b and raw sum `sum`:
\* the new [matches, minSums].
Retain(ms, minSums, k, b, sum) ==
    IF Len(ms) < k
    THEN [matches |-> Append(ms, MkMatch(b, RatOfInt(sum))),
          minSums |-> Append(minSums, sum)]
    ELSE LET i == maxDiffIndex(minSums, k)
         IN  IF sum < minSums[i]
             THEN [matches |-> [ms EXCEPT ![i] = MkMatch(b, RatOfInt(sum))],
                   minSums |-> [minSums EXCEPT ![i] = sum]]
             ELSE [matches |-> ms, minSums |-> minSums]

----------------------------------------------------------------------------
(* The fan-in's merge, main.go:697-721 *)

SeqToSet(q) == {q[i] : i \in 1..Len(q)}

\* The orders of S that are ascending in the raw sum, cut to their first n
\* entries; entries with equal sums come in any order.
RECURSIVE SortOutcomes(_, _)
SortOutcomes(S, n) ==
    IF S = {} \/ n = 0 THEN {<<>>}
    ELSE LET least == {e \in S : \A f \in S : ~RatLess(f.Match, e.Match)}
         IN  UNION {{<<e>> \o t : t \in SortOutcomes(S \ {e}, n - 1)} : e \in least}

\* Insertion sort by ascending raw sum: each entry moves left while it is less
\* than the entry before it, so entries with equal sums keep their order.
RECURSIVE InsertionSort(_)
InsertionSort(q) ==
    IF Len(q) <= 1 THEN q
    ELSE LET front == InsertionSort(SubSeq(q, 1, Len(q) - 1))
             e == q[Len(q)]
             j == Cardinality({i \in 1..Len(front) : ~RatLess(e.Match, front[i].Match)})
         IN  SubSeq(front, 1, j) \o <<e>> \o SubSeq(front, j + 1, Len(front))

\* The slice cut to its first n arrivals before it is sorted.
SortSlice_FirstArrivals(q, n) == {InsertionSort(SubSeq(q, 1, Min2(n, Len(q))))}

\* SortSlice without the sort: the slice is left in the order of arrival.
SortSlice_Unsorted(q, n) == {SubSeq(q, 1, Min2(n, Len(q)))}

\* sort.Slice(matches, less by raw sum), of which the merge keeps the first n
\* entries.  sort.Slice is not stable in general, so entries with equal sums
\* come in any order, but every release of the sort package orders a slice of
\* up to 6 entries by insertion sort alone.
SortSlice(q, n) ==
    IF Len(q) <= 6 THEN {SubSeq(InsertionSort(q), 1, Min2(n, Len(q)))}
    ELSE SortOutcomes(SeqToSet(q), n)

\* matches[:k] of a slice made with capacity k*numWorkers: the first k
\* entries of the backing array, zero values past the entries appended.
Truncate(q, k) ==
    [i \in 1..k |-> IF i <= Len(q) THEN q[i] ELSE ZeroMatch]

\* norm := 1 / float64(subimgr.Max.X*subimgr.Max.Y*0xFF*3); Match = 1 - Match*norm.
\* A score is kept as the unreduced fraction (den - sum) / den it was computed
\* from: two scores are the same double when sum and den are the same.
Normalize(q, subimg) ==
    LET den == subimg.W * subimg.H * 255 * 3
    IN  [i \in 1..Len(q) |->
            [q[i] EXCEPT !.Match = [n |-> den * q[i].Match.d - q[i].Match.n,
                                    d |-> den * q[i].Match.d]]]

\* Whether the fractions of two scores settle how their doubles compare.
\* Scores that differ as fractions differ by far more than the rounding
\* error.  Equal fractions are the same double when computed from the same
\* sum and den and when both are 1 (sum 0, 1 - 0*norm), and no score is below
\* the literal 0.0 (sum*norm rounds to at most 1).  Otherwise the two doubles
\* can differ in the last place, either way.
Settled(a, b) ==
    \/ a.n * b.d # b.n * a.d
    \/ a.d = b.d
    \/ a.n = a.d
    \/ b = RatOfInt(0)

\* A pair of scores in the order decisions about it are recorded in.
Canon(a, b) == IF a.d < b.d THEN <<a, b>> ELSE <<b, a>>

\* The possible signs of float64(a) - float64(b), given the decisions taken
\* so far: a pair of doubles compares the same way every time.
FloatCmp(a, b, decided) ==
    IF Settled(a, b) THEN {Sign(a.n * b.d - b.n * a.d)}
    ELSE LET c == Canon(a, b)
             known == {e \in decided : e.pair = c}
             flip == IF c = <<a, b>> THEN 1 ELSE -1
         IN  IF known = {} THEN {-1, 0, 1}
             ELSE {flip * e.rel : e \in known}

\* The decisions after float64(a) - float64(b) was seen to have sign r.
Decide(a, b, r, decided) ==
    IF Settled(a, b) THEN decided
    ELSE decided \cup
         {[pair |-> Canon(a, b), rel |-> IF Canon(a, b) = <<a, b>> THEN r ELSE -r]}

----------------------------------------------------------------------------
(* State *)

VARIABLES
    imgsrc,        \* the haystack raster given to findImage
    subsrc,        \* the needle raster given to findImage
    srcRect,       \* where the needle was copied from in the haystack, or ZeroRect
    rawOpts,       \* the Opts the caller passed
    ncpu,          \* runtime.NumCPU()
    pc,            \* where findImage is
    opts,          \* opts after defaulting
    imgWidth,      \* outer loop variable
    img,           \* the resized haystack of the outer level
    div,           \* inner loop variable
    subimg,        \* the resized needle of the inner step
    lastTopMatch,  \* best score of the previous inner step
    matches,       \* findImage's result so far
    done,          \* the early stop was taken
    subruns,       \* run.Subruns of the outer level
    divMatches,    \* what the matcher returned for the inner step
    kk,            \* the matcher's k, after coercion
    inner,         \* the matcher's offset region
    wpc,           \* each worker goroutine's position
    wx, wy,        \* each worker's loop variables
    wmatches,      \* each worker's local matches
    wminSums,      \* each worker's local minSums
    wsent,         \* how many of its matches each worker has sent
    closed,        \* matchChan has been closed
    recvd,         \* the matches the fan-in has appended
    calls,         \* number of times findImage was invoked
    first,         \* what the first invocation returned
    ulps,          \* how doubles of equal fractions were seen to compare
    flags,         \* the command line's flags, or NoFlags when findImage is called directly
    stdout,        \* what main has printed
    origin,        \* the matcher's unscaled result that became matches, and its level
    visits         \* the outer widths visited, each with the divisors its inner loop visited

inputVars == <<imgsrc, subsrc, srcRect, rawOpts, ncpu>>
findVars == <<pc, opts, imgWidth, img, div, subimg, lastTopMatch, matches, done,
              subruns, divMatches>>
convVars == <<kk, inner, wpc, wx, wy, wmatches, wminSums, wsent, closed, recvd>>
mainVars == <<flags, stdout>>
histVars == <<origin, visits>>
vars == <<inputVars, findVars, convVars, calls, first, ulps, mainVars, histVars>>


numWorkers == ncpu * 2
Workers == 0..(numWorkers - 1)

\* imgScale := float64(imgWidth) / float64(imgsrc.Bounds().Max.X)
imgScale == Rat(imgWidth, imgsrc.W)

\* The scale down in place of the scale back up.
invImgScale_Forward == imgScale

\* The inverse scale of the pyramid's first level at every level.
invImgScale_FirstLevel == Rat(imgsrc.W, opts.imgMinWidth)

\* 1 / imgScale
invImgScale == Rat(imgsrc.W, imgWidth)

imgHeight == img.H

\* sw := int(float64(subsrc.Bounds().Dx()) * sscale * imgScale), likewise sh
SubSize(srcLen) ==
    TruncRat(RatMul(RatMul(RatOfInt(srcLen), Rat(1, div)), imgScale))

sw == SubSize(subsrc.W)
sh == SubSize(subsrc.H)

\* The break without the comparisons of the needle with the haystack.
Degenerate_AreaOnly == sw * sh < opts.subMinArea

\* The condition of the break at main.go:289.
Degenerate ==
    sw * sh < opts.subMinArea \/ sw >= imgWidth \/ sh >= imgHeight

----------------------------------------------------------------------------
(* convolutionTopKParallel, main.go:613-722 *)

\* sliceHeight := inner.Dy() / numWorkers
sliceHeight(in) == Dy(in) \div numWorkers

\* ya := inner.Min.Y + workerID*sliceHeight
ya(in, w) == in.MinY + w * sliceHeight(in)

\* The last worker's slice ends with its sliceHeight rows, not at the
\* region's end.
yb_NoRemainder(in, w) == ya(in, w) + sliceHeight(in)

\* yb := ya + sliceHeight, and inner.Dy() for the last worker
yb(in, w) == IF w = numWorkers - 1 THEN Dy(in) ELSE ya(in, w) + sliceHeight(in)

\* Whether the loops at main.go:656-657 have an iteration at (x, y).
InLoops(in, w, x, y) == y < yb(in, w) /\ x < in.MaxX

\* The state of the matcher as the workers are launched on (image, needle).
ConvStart(image, needle) ==
    LET in == Rect(0, 0, image.W - needle.W, image.H - needle.H)
    IN  /\ kk' = IF opts.k < 1 THEN 1 ELSE opts.k
        /\ inner' = in
        /\ wpc' = [w \in Workers |->
                     IF InLoops(in, w, in.MinX, ya(in, w)) THEN "scan" ELSE "send"]
        /\ wx' = [w \in Workers |-> in.MinX]
        /\ wy' = [w \in Workers |-> ya(in, w)]
        /\ wmatches' = [w \in Workers |-> <<>>]
        /\ wminSums' = [w \in Workers |-> <<>>]
        /\ wsent' = [w \in Workers |-> 0]
        /\ closed' = FALSE
        /\ recvd' = <<>>

\* One iteration of a worker's loops: score the offset (wx, wy) and keep it
\* if it is among the worker's k best.  Slicing outside img.Pix panics.
WorkerScan(w) ==
    /\ pc = "conv"
    /\ wpc[w] = "scan"
    /\ LET x == wx[w]
           y == wy[w]
       IN  IF SadPanics(img, x, y, subimg)
           THEN /\ pc' = "panic"
                /\ UNCHANGED <<wpc, wx, wy, wmatches, wminSums>>
           ELSE LET sum == sumOfAbsDiffRGBA(img, x, y, subimg)
                    bounds == Rect(x, y, x + subimg.W, y + subimg.H)
                    r == Retain(wmatches[w], wminSums[w], kk, bounds, sum)
                    nx == IF x + 1 < inner.MaxX THEN x + 1 ELSE inner.MinX
                    ny == IF x + 1 < inner.MaxX THEN y ELSE y + 1
                IN  /\ wmatches' = [wmatches EXCEPT ![w] = r.matches]
                    /\ wminSums' = [wminSums EXCEPT ![w] = r.minSums]
                    /\ wx' = [wx EXCEPT ![w] = nx]
                    /\ wy' = [wy EXCEPT ![w] = ny]
                    /\ wpc' = [wpc EXCEPT ![w] =
                                 IF InLoops(inner, w, nx, ny) THEN "scan" ELSE "send"]
                    /\ pc' = pc
    /\ UNCHANGED <<inputVars, mainVars, histVars, opts, imgWidth, img, div, subimg, lastTopMatch,
                   matches, done, subruns, divMatches, kk, inner, wsent, closed,
                   recvd, calls, first, ulps>>

\* matchChan <- match: the channel is unbuffered, so the send completes as
\* the fan-in's range loop receives the match, which it appends.  A send on
\* a closed channel panics.
WorkerSend(w) ==
    /\ pc = "conv"
    /\ wpc[w] = "send"
    /\ wsent[w] < Len(wmatches[w])
    /\ IF closed
       THEN /\ pc' = "panic"
            /\ UNCHANGED <<recvd, wsent>>
       ELSE /\ recvd' = Append(recvd, wmatches[w][wsent[w] + 1])
            /\ wsent' = [wsent EXCEPT ![w] = @ + 1]
            /\ pc' = pc
    /\ UNCHANGED <<inputVars, mainVars, histVars, opts, imgWidth, img, div, subimg, lastTopMatch,
                   matches, done, subruns, divMatches, kk, inner, wpc, wx, wy, wmatches,
                   wminSums, closed, calls, first, ulps>>

\* wg.Done()
WorkerDone(w) ==
    /\ pc = "conv"
    /\ wpc[w] = "send"
    /\ wsent[w] = Len(wmatches[w])
    /\ wpc' = [wpc EXCEPT ![w] = "done"]
    /\ UNCHANGED <<inputVars, mainVars, histVars, findVars, kk, inner, wx, wy, wmatches, wminSums,
                   wsent, closed, recvd, calls, first, ulps>>

\* close(matchChan) without wg.Wait().
WaitGroupDone_NoWait == TRUE

\* wg.Wait() never returns: the counter was raised once too often.
WaitGroupDone_Never == FALSE

\* wg.Wait() returns: every worker has called wg.Done().
WaitGroupDone == \A w \in Workers : wpc[w] = "done"

\* wg.Wait(); close(matchChan)
CloseChan ==
    /\ pc = "conv"
    /\ ~closed
    /\ WaitGroupDone
    /\ closed' = TRUE
    /\ UNCHANGED <<inputVars, mainVars, histVars, findVars, kk, inner, wpc, wx, wy, wmatches,
                   wminSums, wsent, recvd, calls, first, ulps>>

\* What the matcher returns for the matches received, sorted as `sorted`.
ConvResult(sorted) == Normalize(Truncate(sorted, kk), subimg)

\* The range loop ends; sort, truncate to k, normalise, return.
Merge ==
    /\ pc = "conv"
    /\ closed
    /\ \E sorted \in SortSlice(recvd, kk) :
           divMatches' = ConvResult(sorted)
    /\ pc' = "matched"
    /\ UNCHANGED <<inputVars, mainVars, histVars, opts, imgWidth, img, div, subimg, lastTopMatch,
                   matches, done, subruns, convVars, calls, first, ulps>>

----------------------------------------------------------------------------
(* findImage, main.go:190-348 *)

\* main.go:192-214 and 265-267: defaulting, var matches []Match, imgWidth := imgMinWidth
ApplyDefaults ==
    /\ pc = "start"
    /\ opts' = EffectiveOpts(rawOpts, imgsrc.W)
    /\ imgWidth' = opts'.imgMinWidth
    /\ matches' = <<>>
    /\ pc' = "outer"
    /\ UNCHANGED <<inputVars, mainVars, histVars, img, div, subimg, lastTopMatch, done, subruns,
                   divMatches, convVars, calls, first, ulps>>

\* lastTopMatch kept from the level before.
ResetTopMatch_Carried == lastTopMatch

\* lastTopMatch := 1.
ResetTopMatch_One == RatOfInt(1)

\* main.go:274: lastTopMatch := 0.
ResetTopMatch == RatOfInt(0)

\* main.go:267-284: the outer loop's test and the start of its body;
\* when the test fails findImage returns matches.
OuterStep ==
    /\ pc = "outer"
    /\ IF imgWidth <= opts.imgMaxWidth
       THEN /\ img' = resizeImage(imgsrc, imgWidth, 0)
            /\ lastTopMatch' = ResetTopMatch
            /\ subruns' = <<>>
            /\ done' = FALSE
            /\ div' = 1
            /\ visits' = Append(visits, [width |-> imgWidth, divs |-> <<>>, convs |-> 0])
            /\ pc' = "inner"
       ELSE /\ pc' = "done"
            /\ UNCHANGED <<img, lastTopMatch, subruns, done, div, visits>>
    /\ UNCHANGED <<inputVars, mainVars, origin, opts, imgWidth, subimg, matches, divMatches,
                   convVars, calls, first, ulps>>

\* The inner loop's body is entered with divisor d at the level visited last,
\* and the matcher is invoked or not.
Visit(vs, d, invoked) ==
    [vs EXCEPT ![Len(vs)].divs = Append(@, d),
               ![Len(vs)].convs = IF invoked THEN @ + 1 ELSE @]

\* main.go:284-306: the inner loop's test, the break on a degenerate needle,
\* the needle's resize and the call of the matcher.
InnerStep ==
    /\ pc = "inner"
    /\ visits' = IF div <= opts.subMaxDiv THEN Visit(visits, div, ~Degenerate) ELSE visits
    /\ IF div <= opts.subMaxDiv /\ ~Degenerate
       THEN /\ subimg' = resizeImage(subsrc, sw, sh)
            /\ ConvStart(img, subimg')
            /\ pc' = "conv"
       ELSE /\ pc' = "outerEnd"
            /\ UNCHANGED <<subimg, convVars>>
    /\ UNCHANGED <<inputVars, mainVars, origin, opts, imgWidth, img, div, lastTopMatch, matches,
                   done, subruns, divMatches, calls, first, ulps>>

\* A Subrun, of which the fields findImage reads or sets later are kept.
Subrun(ms, skipped) == [Matches |-> ms, Selected |-> FALSE, Skipped |-> skipped]

\* Early stop without the strictness of the comparison.
Degraded_OrEqual(r) == r <= 0

\* main.go:325: divTopMatch.Match < lastTopMatch, for the sign r of their difference.
Degraded(r) == r < 0

\* main.go:307-331: the rest of the inner loop's body after the matcher returned.
AfterConv ==
    /\ pc = "matched"
    /\ IF Len(divMatches) = 0
       THEN /\ subruns' = Append(subruns, Subrun(<<>>, TRUE))
            /\ pc' = "outerEnd"
            /\ UNCHANGED <<lastTopMatch, matches, done, div, divMatches, ulps, origin>>
       ELSE \E scaled \in MatchesScale(divMatches, invImgScale) :
            LET divTopMatch == divMatches[1]
                runs == Append(subruns, Subrun(scaled, FALSE))
            IN  \* Scale works in place: divMatches is the scaled slice from here on
                /\ divMatches' = scaled
                /\ \E r \in FloatCmp(divTopMatch.Match, lastTopMatch, ulps) :
                   /\ ulps' = Decide(divTopMatch.Match, lastTopMatch, r, ulps)
                   /\ IF Degraded(r)
                      THEN IF Len(runs) < 2
                           THEN \* run.Subruns[len(run.Subruns)-2]: index out of range
                                /\ pc' = "panic"
                                /\ subruns' = runs
                                /\ UNCHANGED <<lastTopMatch, matches, done, div, origin>>
                           ELSE /\ subruns' = [runs EXCEPT ![Len(runs) - 1].Selected = TRUE]
                                /\ done' = TRUE
                                /\ pc' = "outerEnd"
                                /\ UNCHANGED <<lastTopMatch, matches, div, origin>>
                      ELSE /\ subruns' = runs
                           /\ lastTopMatch' = divTopMatch.Match
                           /\ matches' = scaled
                           /\ origin' = [raw |-> divMatches, width |-> imgWidth]
                           /\ div' = div * 2
                           /\ pc' = "inner"
                           /\ UNCHANGED done
    /\ UNCHANGED <<inputVars, mainVars, visits, opts, imgWidth, img, subimg, convVars,
                   calls, first>>

\* The outer loop stepping by one pixel.
NextWidth_Increment(w) == w + 1

\* main.go:267: imgWidth *= 2
NextWidth(w) == w * 2

\* main.go:338-341 and 267: leave the outer loop after an early stop, else double imgWidth.
OuterEnd ==
    /\ pc = "outerEnd"
    /\ IF done
       THEN pc' = "done" /\ UNCHANGED imgWidth
       ELSE pc' = "outer" /\ imgWidth' = NextWidth(imgWidth)
    /\ UNCHANGED <<inputVars, mainVars, histVars, opts, img, div, subimg, lastTopMatch, matches, done,
                   subruns, divMatches, convVars, calls, first, ulps>>

----------------------------------------------------------------------------
(* main, main.go:123-188 *)

\* The value of flags when findImage is called without main.
NoFlags == [output |-> "none"]

\* main.go:165-170: the Opts main builds from the flags. Of the numeric flags
\* it copies imgMinWidth, imgMaxWidth and subMinArea; subMaxDiv and k keep the
\* zero value of Opts{}.
MainOpts(f) ==
    [imgMinWidth |-> f.imgMinWidth, imgMaxWidth |-> f.imgMaxWidth,
     subMinArea |-> f.subMinArea, subMaxDiv |-> 0, k |-> 0]

\* main.go:165-177: build opts and call findImage.
MainCall ==
    /\ pc = "main"
    /\ rawOpts' = MainOpts(flags)
    /\ opts' = rawOpts'
    /\ pc' = "start"
    /\ UNCHANGED <<imgsrc, subsrc, srcRect, ncpu, mainVars, histVars, imgWidth, img, div,
                   subimg, lastTopMatch, matches, done, subruns, divMatches, convVars,
                   calls, first, ulps>>

\* The first `places` decimals of rem / d, with what is left of rem.
RECURSIVE LongDiv(_, _, _, _)
LongDiv(q, rem, d, places) ==
    IF places = 0 THEN [q |-> q, rem |-> rem]
    ELSE LongDiv(q * 10 + (rem * 10) \div d, (rem * 10) % d, d, places - 1)

Decimals == 6

\* The verb %6f of a score in 0..1: the decimal with six places nearest to
\* it, in millionths; a tie goes to the even one.
Fixed6(r) ==
    LET l == LongDiv(r.n \div r.d, r.n % r.d, r.d, Decimals)
        up == 2 * l.rem > r.d \/ (2 * l.rem = r.d /\ l.q % 2 = 1)
    IN  IF up THEN l.q + 1 ELSE l.q

\* main.go:185: fmt.Printf("%6f %4d %4d %4d %4d\n", match.Match, Min.X, Min.Y, Max.X, Max.Y)
TextLine(m) ==
    <<Fixed6(m.Match), m.Bounds.MinX, m.Bounds.MinY, m.Bounds.MaxX, m.Bounds.MaxY>>

\* main.go:525-544: Match.MarshalJSON
MarshalJSON(m) ==
    [bounds |-> [x |-> m.Bounds.MinX, y |-> m.Bounds.MinY,
                 w |-> Dx(m.Bounds), h |-> Dy(m.Bounds)],
     match |-> m.Match]

\* main.go:179-187: print the matches in the format of -o. With -o html
\* findImage itself writes the page; that format is not among CliFlags.
MainPrint ==
    /\ pc = "done"
    /\ flags # NoFlags
    /\ stdout' = IF flags.output = "json"
                 THEN <<[i \in 1..Len(matches) |-> MarshalJSON(matches[i])]>>
                 ELSE [i \in 1..Len(matches) |-> TextLine(matches[i])]
    /\ pc' = "exit"
    /\ UNCHANGED <<inputVars, flags, histVars, opts, imgWidth, img, div, subimg,
                   lastTopMatch, matches, done, subruns, divMatches, convVars, calls,
                   first, ulps>>

----------------------------------------------------------------------------
(* Inputs *)

MaxCPU == 1
MaxK == 4

Black == <<0, 0, 0>>
White == <<255, 255, 255>>
Red == <<255, 0, 0>>

NoRaster == [W |-> 0, H |-> 0, Pix |-> <<>>]

\* A raster of colour bg with one pixel, at p, of colour fg.
Spot(w, h, bg, fg, p) ==
    LET px == [x \in 0..(w - 1), y \in 0..(h - 1) |-> IF <<x, y>> = p THEN fg ELSE bg]
    IN  MkRaster(w, h, px)

\* The needle cut out of src at rectangle r (randomSubimage, main.go:350-361).
Copy(src, r) ==
    LET px == [x \in 0..(Dx(r) - 1), y \in 0..(Dy(r) - 1) |->
                 At(src, r.MinX + x, r.MinY + y)]
    IN  MkRaster(Dx(r), Dy(r), px)

\* A raster whose pixels all differ: grey levels rising along the rows, the
\* last one at most 255.
Ramp(w, h) ==
    LET step == 255 \div (w * h)
        grey(x, y) == step * (y * w + x)
        px == [x \in 0..(w - 1), y \in 0..(h - 1) |->
                 <<grey(x, y), grey(x, y), grey(x, y)>>]
    IN  MkRaster(w, h, px)

SmallHaystacks ==
    {Spot(4, 4, Black, Black, <<0, 0>>), Spot(4, 4, Black, White, <<2, 1>>),
     Spot(4, 4, White, Red, <<0, 0>>), Ramp(4, 4)}

\* The rectangles small needles are cut from.
SmallCuts ==
    {Rect(p[1], p[2], p[1] + d[1], p[2] + d[2]) :
        p \in {<<0, 0>>, <<2, 1>>}, d \in {<<1, 1>>, <<2, 2>>, <<2, 3>>}}

\* Needles that are not cut from the haystack, some larger than it.
ForeignNeedles ==
    {Spot(2, 2, White, White, <<0, 0>>), Spot(2, 2, Black, White, <<1, 1>>),
     Spot(5, 2, Black, White, <<0, 0>>), Spot(2, 5, Black, White, <<0, 0>>),
     Spot(4, 4, Black, White, <<2, 1>>)}

ZeroOpts ==
    [imgMinWidth |-> 0, imgMaxWidth |-> 0, subMinArea |-> 0, subMaxDiv |-> 0, k |-> 0]

BaseOpts ==
    [imgMinWidth |-> 2, imgMaxWidth |-> 0, subMinArea |-> 1, subMaxDiv |-> 2, k |-> 1]

\* The options tried on a small haystack: the zero Opts{}, BaseOpts with each
\* k up to kmax, and BaseOpts with one other field changed.
SmallOpts(kmax) ==
    {ZeroOpts}
    \cup {[BaseOpts EXCEPT !.k = v] : v \in (-1..kmax) \ {0}}
    \cup {[BaseOpts EXCEPT !.imgMinWidth = v] : v \in {0, 1}}
    \cup {[BaseOpts EXCEPT !.imgMaxWidth = 2]}
    \cup {[BaseOpts EXCEPT !.subMinArea = v] : v \in {-1, 0}}
    \cup {[BaseOpts EXCEPT !.subMaxDiv = v] : v \in {0, 1}}

\* The largest k tried on a haystack: the haystacks with many equal pixels,
\* where most offsets tie, get k up to 2 only.
KFor(hay) == IF hay = Ramp(hay.W, hay.H) THEN MaxK ELSE Min2(MaxK, 2)

\* An 8 x 6 haystack for the default options (imgMinWidth 8, subMinArea 25, k 6).
LargeHaystacks == {Spot(8, 6, Black, White, <<1, 1>>), Ramp(8, 6)}

LargeCuts == {Rect(0, 0, 5, 5), Rect(2, 1, 7, 6), Rect(1, 0, 7, 5)}

----------------------------------------------------------------------------
(* Specification *)

\* The values of findImage's and the matcher's variables before a call.
NoOrigin == [raw |-> <<>>, width |-> 0]

\* findImage's locals and the matcher's before findImage runs.
Idle ==
    /\ origin = NoOrigin
    /\ visits = <<>>
    /\ opts = rawOpts
    /\ imgWidth = 0
    /\ img = NoRaster
    /\ div = 0
    /\ subimg = NoRaster
    /\ lastTopMatch = RatOfInt(0)
    /\ matches = <<>>
    /\ done = FALSE
    /\ subruns = <<>>
    /\ divMatches = <<>>
    /\ kk = 0
    /\ inner = ZeroRect
    /\ wpc = [w \in Workers |-> "done"]
    /\ wx = [w \in Workers |-> 0]
    /\ wy = [w \in Workers |-> 0]
    /\ wmatches = [w \in Workers |-> <<>>]
    /\ wminSums = [w \in Workers |-> <<>>]
    /\ wsent = [w \in Workers |-> 0]
    /\ closed = FALSE
    /\ recvd = <<>>

\* findImage is called directly, as the tests call it.
Fresh ==
    /\ pc = "start"
    /\ flags = NoFlags
    /\ stdout = <<>>
    /\ Idle

\* A haystack one pixel high, whose resized height is raised to 1, with
\* needles that shrink to width or height 0 and a negative subMinArea.
FlatHaystacks == {Spot(4, 1, Black, White, <<1, 0>>)}

FlatNeedles == {Spot(1, 2, Black, White, <<0, 0>>), Spot(3, 1, Black, White, <<1, 0>>)}

FlatOpts ==
    {[BaseOpts EXCEPT !.imgMinWidth = 1, !.subMinArea = v] : v \in {-1, 1}}

\* A haystack, a needle cut from it at srcRect or a foreign one, and options.
SmallInput ==
    /\ imgsrc \in SmallHaystacks
    /\ \/ /\ srcRect \in SmallCuts
          /\ subsrc = Copy(imgsrc, srcRect)
       \/ /\ srcRect = ZeroRect
          /\ subsrc \in ForeignNeedles
    /\ rawOpts \in SmallOpts(KFor(imgsrc))

LargeInput ==
    /\ imgsrc \in LargeHaystacks
    /\ srcRect \in LargeCuts
    /\ subsrc = Copy(imgsrc, srcRect)
    /\ rawOpts \in {ZeroOpts, [ZeroOpts EXCEPT !.k = -1]}

\* Options that start the pyramid of a large haystack at half its width and
\* let the needle shrink to a single pixel.
NarrowOpts ==
    {[BaseOpts EXCEPT !.imgMinWidth = 4, !.k = v] : v \in 1..2}

\* The cuts whose search of the ramp degrades at half the width.
NarrowCuts == {Rect(0, 0, 5, 5), Rect(1, 0, 7, 5)}

NarrowInput ==
    /\ imgsrc = Ramp(8, 6)
    /\ srcRect \in NarrowCuts
    /\ subsrc = Copy(imgsrc, srcRect)
    /\ rawOpts \in NarrowOpts

\* Rasters of zero width or height given as haystack or as needle.
EmptyRaster(w, h) == [W |-> w, H |-> h, Pix |-> <<>>]

EmptyInput ==
    /\ \/ /\ imgsrc \in {EmptyRaster(0, 4), EmptyRaster(4, 0)}
          /\ subsrc = Spot(1, 1, White, White, <<0, 0>>)
       \/ /\ imgsrc = Spot(4, 4, Black, White, <<2, 1>>)
          /\ subsrc \in {EmptyRaster(0, 2), EmptyRaster(2, 0)}
    /\ srcRect = ZeroRect
    /\ rawOpts \in {ZeroOpts, BaseOpts, [BaseOpts EXCEPT !.subMinArea = -1]}

\* The command lines tried: -k and -sub-max-div absent (0) or given, the
\* output format text or json.
CliFlags ==
    [output : {"", "json"}, imgMinWidth : {0}, imgMaxWidth : {0},
     subMinArea : {0}, subMaxDiv : {0, 1}, k : {0, 1, 2}]

\* main is run on the files of a large haystack and a needle cut from it.
CliInput ==
    /\ imgsrc \in LargeHaystacks
    /\ srcRect \in LargeCuts
    /\ subsrc = Copy(imgsrc, srcRect)
    /\ rawOpts = ZeroOpts
    /\ flags \in CliFlags
    /\ stdout = <<>>
    /\ pc = "main"
    /\ Idle

FlatInput ==
    /\ imgsrc \in FlatHaystacks
    /\ srcRect = ZeroRect
    /\ subsrc \in FlatNeedles
    /\ rawOpts \in FlatOpts

Init ==
    /\ ncpu \in 1..MaxCPU
    /\ calls = 1
    /\ first = <<>>
    /\ ulps = {}
    /\ \/ (SmallInput \/ LargeInput \/ NarrowInput \/ FlatInput \/ EmptyInput) /\ Fresh
       \/ CliInput

\* The caller invokes findImage a second time with the same arguments.
Reinvoke ==
    /\ pc = "done"
    /\ flags = NoFlags
    /\ calls = 1
    /\ calls' = 2
    /\ first' = matches
    /\ pc' = "start"
    /\ opts' = rawOpts
    /\ imgWidth' = 0
    /\ img' = NoRaster
    /\ div' = 0
    /\ subimg' = NoRaster
    /\ lastTopMatch' = RatOfInt(0)
    /\ matches' = <<>>
    /\ done' = FALSE
    /\ subruns' = <<>>
    /\ divMatches' = <<>>
    /\ kk' = 0
    /\ inner' = ZeroRect
    /\ wpc' = [w \in Workers |-> "done"]
    /\ wx' = [w \in Workers |-> 0]
    /\ wy' = [w \in Workers |-> 0]
    /\ wmatches' = [w \in Workers |-> <<>>]
    /\ wminSums' = [w \in Workers |-> <<>>]
    /\ wsent' = [w \in Workers |-> 0]
    /\ closed' = FALSE
    /\ recvd' = <<>>
    /\ origin' = NoOrigin
    /\ visits' = <<>>
    /\ UNCHANGED <<inputVars, mainVars, ulps>>

Next ==
    \/ ApplyDefaults
    \/ OuterStep
    \/ InnerStep
    \/ \E w \in Workers : WorkerScan(w)
    \/ \E w \in Workers : WorkerSend(w)
    \/ \E w \in Workers : WorkerDone(w)
    \/ CloseChan
    \/ Merge
    \/ AfterConv
    \/ OuterEnd
    \/ Reinvoke
    \/ MainCall
    \/ MainPrint

Spec == Init /\ [][Next]_vars

\* Some goroutine can take a step: main and findImage have not returned for
\* good or panicked.  While the matcher runs, a worker scans, sends or
\* finishes, or the channel can be closed, or the fan-in can merge.
CanStep ==
    \/ pc \in {"main", "start", "outer", "inner", "conv", "matched", "outerEnd"}
    \/ pc = "done" /\ (flags # NoFlags \/ calls = 1)

\* The Go scheduler runs a goroutine that can take a step: a step that stays
\* possible is eventually taken.  This is WF_vars(Next), with the states in
\* which Next is enabled told by CanStep.
NextFair == []<>(~CanStep) \/ []<><<Next>>_vars

\* Weak fairness of the steps, and of the goroutine that waits for the
\* workers and closes the channel (main.go:692-695) in particular.
FairSpec == Spec /\ NextFair /\ WF_vars(CloseChan)

----------------------------------------------------------------------------
(* Specification of Match.Scale applied at the pyramid's scales *)

MaxSrcW == 8

\* The widths the outer loop of findImage visits: imgMinWidth doubled while
\* it is at most imgMaxWidth.
PyramidWidths(o) ==
    {v \in o.imgMinWidth..o.imgMaxWidth :
        v % o.imgMinWidth = 0 /\ IsPow2(v \div o.imgMinWidth)}

\* A haystack of any width up to MaxSrcW, a width of its pyramid, and a
\* Match whose rectangle lies in the haystack.
InitScale ==
    /\ \E w \in 1..MaxSrcW : imgsrc = Spot(w, 2, Black, White, <<0, 0>>)
    /\ subsrc = Spot(1, 1, Black, Black, <<0, 0>>)
    /\ srcRect = ZeroRect
    /\ \E m \in 1..MaxSrcW : rawOpts = [BaseOpts EXCEPT !.imgMinWidth = m]
    /\ ncpu = 1
    /\ calls = 1
    /\ first = <<>>
    /\ ulps = {}
    /\ flags = NoFlags
    /\ stdout = <<>>
    /\ origin = NoOrigin
    /\ visits = <<>>
    /\ pc = "scale"
    /\ opts = EffectiveOpts(rawOpts, imgsrc.W)
    /\ imgWidth \in PyramidWidths(opts)
    /\ img = NoRaster
    /\ div = 1
    /\ subimg = NoRaster
    /\ lastTopMatch = RatOfInt(0)
    /\ \E x0 \in 0..imgsrc.W, x1 \in 0..imgsrc.W, y0 \in 0..imgsrc.H, y1 \in 0..imgsrc.H :
           /\ x0 < x1 /\ y0 < y1
           /\ matches = <<MkMatch(Rect(x0, y0, x1, y1), RatOfInt(1))>>
    /\ done = FALSE
    /\ subruns = <<>>
    /\ divMatches = <<>>
    /\ kk = 0
    /\ inner = ZeroRect
    /\ wpc = [w \in Workers |-> "done"]
    /\ wx = [w \in Workers |-> 0]
    /\ wy = [w \in Workers |-> 0]
    /\ wmatches = [w \in Workers |-> <<>>]
    /\ wminSums = [w \in Workers |-> <<>>]
    /\ wsent = [w \in Workers |-> 0]
    /\ closed = FALSE
    /\ recvd = <<>>

\* matches.Scale(imgScale); first keeps the rectangles as they were.
ScaleDown ==
    /\ pc = "scale"
    /\ first' = matches
    /\ \E scaled \in MatchesScale(matches, imgScale) : matches' = scaled
    /\ pc' = "scaled"
    /\ UNCHANGED <<inputVars, mainVars, histVars, opts, imgWidth, img, div, subimg, lastTopMatch,
                   done, subruns, divMatches, convVars, calls, ulps>>

\* matches.Scale(1 / imgScale), as at main.go:322.
ScaleUp ==
    /\ pc = "scaled"
    /\ \E scaled \in MatchesScale(matches, invImgScale) : matches' = scaled
    /\ pc' = "rescaled"
    /\ UNCHANGED <<inputVars, mainVars, histVars, opts, imgWidth, img, div, subimg, lastTopMatch,
                   done, subruns, divMatches, convVars, calls, first, ulps>>

NextScale == ScaleDown \/ ScaleUp

SpecScale == InitScale /\ [][NextScale]_vars

----------------------------------------------------------------------------
(* Properties *)

\* The needle was cut from the haystack.
IsCut == srcRect # ZeroRect

\* image.Rectangle.Intersect
Intersect(r, q) ==
    LET x0 == IF r.MinX > q.MinX THEN r.MinX ELSE q.MinX
        y0 == IF r.MinY > q.MinY THEN r.MinY ELSE q.MinY
        x1 == Min2(r.MaxX, q.MaxX)
        y1 == Min2(r.MaxY, q.MaxY)
    IN  IF x0 >= x1 \/ y0 >= y1 THEN ZeroRect
        ELSE [MinX |-> x0, MinY |-> y0, MaxX |-> x1, MaxY |-> y1]

\* C1: for a needle cut out of the haystack, findImage returns at least one
\* match.
C1_CutNeedleFound ==
    (pc = "done" /\ IsCut) => Len(matches) >= 1

\* C2: for a needle cut out of the haystack at a rectangle R (of at least 5 x 5
\* pixels, or no intersection could be that large), the first match returned
\* intersects R over a width and a height of at least 5.
C2_TopMatchIntersects ==
    (pc = "done" /\ IsCut /\ Dx(srcRect) >= 5 /\ Dy(srcRect) >= 5) =>
        /\ Len(matches) >= 1
        /\ Dx(Intersect(matches[1].Bounds, srcRect)) >= 5
        /\ Dy(Intersect(matches[1].Bounds, srcRect)) >= 5

\* The needle is larger than the haystack in width or in height.
Oversize == subsrc.W > imgsrc.W \/ subsrc.H > imgsrc.H

\* C3: for a needle larger than the haystack in width or height, findImage
\* does not fail and returns an empty list.
C3_OversizeNeedleEmpty ==
    Oversize => /\ pc # "panic"
                /\ pc = "done" => matches = <<>>

\* The offsets of the matcher's valid region for the current rasters.
ValidOffsets ==
    {<<x, y>> : x \in 0..(img.W - subimg.W - 1), y \in 0..(img.H - subimg.H - 1)}

\* The score 1 - sum / (needleW * needleH * 255 * 3) of the offset (x, y).
ScoreAt(x, y) ==
    LET den == subimg.W * subimg.H * 255 * 3
    IN  [n |-> den - sumOfAbsDiffRGBA(img, x, y, subimg), d |-> den]

\* The matcher has returned and findImage has not yet rescaled the result.
Returned == pc = "matched"

\* C4: every score the matcher returns is 1 - rawSum / (needleW * needleH *
\* 255 * 3) for the raw sum of the entry's offset, lies in [0, 1], and is 1
\* exactly when the needle equals the haystack patch at that offset.
C4_ScoreOfOffset ==
    Returned =>
        \A i \in 1..Len(divMatches) :
            LET m == divMatches[i]
                x == m.Bounds.MinX
                y == m.Bounds.MinY
            IN  /\ <<x, y>> \in ValidOffsets
                /\ m.Match = ScoreAt(x, y)
                /\ 0 <= m.Match.n /\ m.Match.n <= m.Match.d
                /\ (m.Match.n = m.Match.d) <=>
                       \A nx \in 0..(subimg.W - 1), ny \in 0..(subimg.H - 1) :
                           At(img, x + nx, y + ny) = At(subimg, nx, ny)

\* The matcher's k after coercion, from the options.
CoercedK == IF opts.k < 1 THEN 1 ELSE opts.k

\* C5: the matcher returns at most k entries (k coerced to at least 1), and
\* no worker's local matches or minSums ever holds more than k entries.
C5_AtMostK ==
    /\ Returned => Len(divMatches) <= CoercedK
    /\ pc = "conv" =>
           \A w \in Workers : /\ Len(wmatches[w]) <= CoercedK
                              /\ Len(wminSums[w]) <= CoercedK

\* C5 witness: the matcher returned exactly k entries after the fan-in had
\* received more than k, from workers that each scored more than k offsets.
C5_Witness ==
    /\ Returned
    /\ Len(recvd) > CoercedK
    /\ Len(divMatches) = CoercedK
    /\ \A w \in Workers : Dx(inner) * (yb(inner, w) - ya(inner, w)) > CoercedK

\* C6: every rectangle the matcher returns is the needle-sized rectangle of an
\* offset of the valid region, and neither the matcher nor findImage returns a
\* rectangle of zero area.
C6_RectOfValidOffset ==
    /\ Returned =>
           \A i \in 1..Len(divMatches) :
               \E o \in ValidOffsets :
                   divMatches[i].Bounds =
                       Rect(o[1], o[2], o[1] + subimg.W, o[2] + subimg.H)
    /\ pc = "done" =>
           \A i \in 1..Len(matches) :
               Dx(matches[i].Bounds) > 0 /\ Dy(matches[i].Bounds) > 0

\* The scores of ms do not increase along the list.
Descending(ms) ==
    \A i \in 1..(Len(ms) - 1) :
        ms[i].Match.n * ms[i + 1].Match.d >= ms[i + 1].Match.n * ms[i].Match.d

\* C7: the list the matcher returns and the list findImage returns are
\* ordered by non-increasing score.
C7_Descending ==
    /\ Returned => Descending(divMatches)
    /\ pc = "done" => Descending(matches)

\* findImage has returned from its second invocation; first holds what the
\* first invocation returned.
ReturnedTwice == pc = "done" /\ calls = 2

\* C8 as stated: two invocations of findImage on the same haystack, needle,
\* options and worker count return the same list, scores and rectangles,
\* whatever the workers' schedule and the order their matches arrive in.
C8_SameLists == ReturnedTwice => matches = first

\* C8: two invocations of findImage on the same haystack, needle, options and
\* worker count return lists of the same length with the same score at every
\* index, under every schedule and arrival order; the rectangles of entries
\* whose raw sums tie can differ.
C8_SameScores ==
    ReturnedTwice =>
        /\ Len(matches) = Len(first)
        /\ \A i \in 1..Len(matches) : matches[i].Match = first[i].Match

\* C8 witness: the second invocation returned the scores of the first with
\* another rectangle at some index.
C8_Witness ==
    /\ ReturnedTwice
    /\ Len(matches) >= 1
    /\ \E i \in 1..Len(matches) : matches[i].Bounds # first[i].Bounds

\* The defaults as the documentation of the options gives them.
DocumentedOpts(o, srcW) ==
    LET maxW == IF o.imgMaxWidth = 0 THEN 256 ELSE o.imgMaxWidth
    IN  [imgMinWidth |-> IF o.imgMinWidth = 0 THEN 8 ELSE o.imgMinWidth,
         imgMaxWidth |-> Min2(maxW, srcW),
         subMinArea  |-> IF o.subMinArea = 0 THEN 25 ELSE o.subMinArea,
         subMaxDiv   |-> IF o.subMaxDiv = 0 THEN 64 ELSE o.subMaxDiv,
         k           |-> IF o.k = 0 THEN 6 ELSE o.k]

\* Some option is zero, or k is below 1.
NeedsDefaulting ==
    \/ 0 \in {rawOpts.imgMinWidth, rawOpts.imgMaxWidth, rawOpts.subMinArea,
              rawOpts.subMaxDiv, rawOpts.k}
    \/ rawOpts.k < 1

\* C10: once past its defaulting, findImage works with the options given,
\* every zero field replaced by its default (imgMinWidth 8, imgMaxWidth 256,
\* subMinArea 25, subMaxDiv 64, k 6) and imgMaxWidth lowered to the haystack's
\* width; the matcher works with k raised to 1 when it is below 1; a call
\* with a zero option or a k below 1 does not fail.
C10_DefaultsApplied ==
    /\ pc \notin {"main", "start"} => opts = DocumentedOpts(rawOpts, imgsrc.W)
    /\ pc \in {"conv", "matched"} => kk = CoercedK /\ kk >= 1
    /\ NeedsDefaulting => pc # "panic"

\* C10 witness: the matcher runs with k = -1 coerced to 1, the other options
\* defaulted from zero and imgMaxWidth lowered from 256 to the haystack's width.
C10_Witness ==
    /\ pc = "conv"
    /\ rawOpts = [ZeroOpts EXCEPT !.k = -1]
    /\ kk = 1
    /\ opts.imgMinWidth = 8
    /\ opts.imgMaxWidth = imgsrc.W
    /\ imgsrc.W < 256

\* The corner coordinates of a rectangle.
Corners(r) == <<r.MinX, r.MinY, r.MaxX, r.MaxY>>

\* The rectangle has been scaled by imgScale and then by 1 / imgScale.
RoundTripped == pc = "rescaled"

\* How far corner i of the rescaled rectangle lies below the original's.
Loss(i) == Corners(first[1].Bounds)[i] - Corners(matches[1].Bounds)[i]

\* C9 as stated: scaling a Match's rectangle by imgScale and then by
\* 1 / imgScale gives back every corner coordinate to within 1 pixel.
C9_RoundTripWithinOne ==
    RoundTripped => \A i \in 1..4 : Abs(Loss(i)) <= 1

\* C9: scaling a Match's rectangle by a pyramid scale imgScale and then by
\* 1 / imgScale never raises a corner coordinate and lowers it by at most
\* 1 / imgScale + 1 pixels.
C9_RoundTripBound ==
    RoundTripped =>
        \A i \in 1..4 : /\ Loss(i) >= 0
                        /\ (Loss(i) - 1) * imgWidth <= imgsrc.W

\* C9 witness: a round trip at a scale below 1 that lowered a corner by more
\* than 1 pixel.
C9_Witness ==
    /\ RoundTripped
    /\ imgWidth < imgsrc.W
    /\ \E i \in 1..4 : Loss(i) > 1

\* The needle does not fit the haystack the matcher was given: the valid
\* region has no offset.
NoFit == img.W - subimg.W <= 0 \/ img.H - subimg.H <= 0

\* C11: when the needle does not fit the haystack (haystackW - needleW <= 0 or
\* haystackH - needleH <= 0) the matcher returns the empty list, and it does
\* not fail.
C11_NoFitEmpty ==
    /\ Returned /\ NoFit => divMatches = <<>>
    /\ pc = "panic" => ~NoFit

\* The haystack or the needle has zero width or zero height.
ZeroDim == 0 \in {imgsrc.W, imgsrc.H, subsrc.W, subsrc.H}

\* C12: given a haystack or a needle of zero width or zero height, findImage
\* rejects the input: it never invokes the matcher and never returns a list
\* the way it does for a well-formed input.
C12_ZeroDimRejected ==
    ZeroDim => pc \notin {"conv", "matched", "done"}

\* The command line gave -k N with N >= 1.
KFlagGiven == flags # NoFlags /\ flags.k >= 1

\* C13: when the tool is run with -k N, N >= 1, the k the per-scale matcher
\* works with is N.
C13_KFlagUsed ==
    KFlagGiven /\ pc \in {"conv", "matched"} => kk = flags.k

\* main has printed the matches in the default text format.
TextPrinted == pc = "exit" /\ flags.output = ""

\* The line 'score x y width height' of a match.
DocumentedLine(m) ==
    <<Fixed6(m.Match), m.Bounds.MinX, m.Bounds.MinY, Dx(m.Bounds), Dy(m.Bounds)>>

\* C14: in the default text output every match is printed as one line
\* 'score x y width height', x and y the top-left corner of its rectangle,
\* width = max.x - min.x and height = max.y - min.y.
C14_TextLineFields ==
    TextPrinted =>
        /\ Len(stdout) = Len(matches)
        /\ \A i \in 1..Len(matches) : stdout[i] = DocumentedLine(matches[i])

\* The raw sum a returned score was normalised from: sum = den - (den - sum).
RawSum(m) == m.Match.d - m.Match.n

\* The raw sum of the offset o of the valid region.
SumAt(o) == sumOfAbsDiffRGBA(img, o[1], o[2], subimg)

\* How many offsets of the valid region have a raw sum of at most t.
OffsetsUpTo(t) == Cardinality({o \in ValidOffsets : SumAt(o) <= t})

\* How many returned entries have a raw sum of at most t.
ReturnedUpTo(t) == Cardinality({i \in 1..Len(divMatches) : RawSum(divMatches[i]) <= t})

\* C15: when the valid region has at least k offsets, the raw sums of the k
\* entries the matcher returns are, as a multiset, the k smallest raw sums
\* over all offsets of the region, whatever the number of workers and the
\* partition of the rows: below every threshold the result has as many
\* entries as the region has offsets, up to k.
C15_KSmallestSums ==
    Returned /\ Cardinality(ValidOffsets) >= kk =>
        /\ Len(divMatches) = kk
        /\ \A t \in {SumAt(o) : o \in ValidOffsets}
                    \cup {RawSum(divMatches[i]) : i \in 1..Len(divMatches)} :
               ReturnedUpTo(t) = Min2(kk, OffsetsUpTo(t))

\* C15 witness: the region has more offsets than k, two workers each sent
\* matches, and an offset with a larger raw sum than every returned entry
\* was left out.
C15_Witness ==
    /\ Returned
    /\ kk >= 2
    /\ Cardinality(ValidOffsets) > kk
    /\ \E w1 \in Workers, w2 \in Workers : w1 # w2 /\ wsent[w1] > 0 /\ wsent[w2] > 0
    /\ \E o \in ValidOffsets :
           \A i \in 1..Len(divMatches) : RawSum(divMatches[i]) < SumAt(o)

\* How the step's best score compared with lastTopMatch, read off a step
\* that leaves "matched": the comparison's outcome is settled afterwards.
StepOutcome == FloatCmp(divMatches[1].Match, lastTopMatch, ulps')

\* The inner step after the matcher returned: on a best score strictly below
\* lastTopMatch the early stop is taken and the result is the previous
\* step's Matches; otherwise the step's own score and Matches are stored.
C16_Step ==
    pc = "matched" /\ Len(divMatches) > 0 =>
        IF StepOutcome = {-1}
        THEN /\ done' /\ pc' = "outerEnd"
             /\ Len(subruns') >= 2
             /\ matches' = subruns'[Len(subruns') - 1].Matches
             /\ matches' = matches
        ELSE /\ ~done' /\ pc' = "inner"
             /\ lastTopMatch' = divMatches[1].Match
             /\ matches' = subruns'[Len(subruns')].Matches

\* After the early stop no inner and no outer step follows: findImage returns.
C16_Stop ==
    /\ done /\ pc = "outerEnd" => pc' = "done" /\ matches' = matches
    /\ done' => pc' \in {"outerEnd", "done", "exit"}

\* C16: when the best score of an inner step is strictly less than
\* lastTopScore, findImage runs no further inner or outer step and returns
\* the Matches of the previous inner step of the same outer level; otherwise
\* lastTopScore and the running result become the current step's.
C16_EarlyStop == [][C16_Step /\ C16_Stop]_vars

\* C16 witness: findImage returned after an early stop with the previous
\* step's Matches, which differ from the degraded step's.
C16_Witness ==
    /\ pc = "done" /\ done
    /\ Len(subruns) >= 2
    /\ matches = subruns[Len(subruns) - 1].Matches
    /\ matches # subruns[Len(subruns)].Matches
    /\ subruns[Len(subruns)].Matches[1].Match.n * matches[1].Match.d
           < matches[1].Match.n * subruns[Len(subruns)].Matches[1].Match.d

\* The outer levels, by their position in visits, at which the matcher was invoked.
ConvLevels == {i \in 1..Len(visits) : visits[i].convs > 0}

\* findImage returned without an early stop: the result is that of the
\* matcher's last invocation, which is at the last level that invoked it.
C17_Last ==
    pc = "done" /\ ~done =>
        IF ConvLevels = {}
        THEN matches = <<>>
        ELSE /\ matches = divMatches
             /\ \A i \in ConvLevels : visits[i].width <= origin.width
             /\ \E i \in ConvLevels : visits[i].width = origin.width

\* A level that stops before invoking the matcher keeps the stored result,
\* and the first step of a level stores its Matches whatever the scores of
\* the levels before.
C17_Frame ==
    /\ pc \in {"outer", "inner", "outerEnd"} => matches' = matches /\ origin' = origin
    /\ pc = "matched" /\ div = 1 /\ Len(divMatches) > 0 =>
           pc' = "inner" /\ matches' = divMatches' /\ origin'.width = imgWidth

\* C17: without degradation findImage returns the Matches of the last
\* pyramid level at which the matcher was invoked; a level whose inner loop
\* stops before invoking the matcher leaves the stored result unchanged, and
\* a later level that produces matches overwrites it without comparing
\* scores across levels.
C17_CarryForward == []C17_Last /\ [][C17_Frame]_vars

\* C17 witness: on rasters that are not empty findImage returned, without
\* early stop, the Matches of a level after which a later level was visited
\* that did not invoke the matcher.
C17_Witness ==
    /\ pc = "done" /\ ~done
    /\ ~ZeroDim
    /\ matches # <<>>
    /\ \E i \in ConvLevels :
           /\ visits[i].width = origin.width
           /\ \E j \in (i + 1)..Len(visits) : visits[j].convs = 0

\* 1 / imgScale of the outer level of the given width.
InvScaleOf(width) == Rat(imgsrc.W, width)

\* The lists Matches.Scale can make, by the scale of the level that
\* produced the result, of what the matcher returned there.
ScaledOnce == MatchesScale(origin.raw, InvScaleOf(origin.width))

\* C18: every Match findImage returns has had its rectangle scaled exactly
\* once, by 1/imgScale of the outer level that produced it, also when the
\* list was carried forward over later levels or kept after an early stop.
C18_ScaledOnce ==
    pc = "done" /\ matches # <<>> =>
        /\ origin.width \in {visits[i].width : i \in 1..Len(visits)}
        /\ Len(origin.raw) = Len(matches)
        /\ matches \in ScaledOnce

\* C18 witness: findImage returned a list produced at a level narrower than
\* the haystack, then carried over a later level or kept by an early stop,
\* that differs from the unscaled list and from every list scaled twice.
C18_Witness ==
    /\ pc = "done" /\ matches # <<>>
    /\ origin.width < imgsrc.W
    /\ done \/ visits[Len(visits)].width > origin.width
    /\ matches \in ScaledOnce
    /\ matches # origin.raw
    /\ \A once \in ScaledOnce :
           matches \notin MatchesScale(once, InvScaleOf(origin.width))

\* The inner loop's body meets the break: the loop stops, the matcher is not
\* invoked and the running result stays.
C19_Stops ==
    pc = "inner" /\ div <= opts.subMaxDiv /\ Degenerate =>
        /\ pc' = "outerEnd"
        /\ matches' = matches /\ origin' = origin
        /\ UNCHANGED <<subimg, convVars, divMatches>>

\* The matcher is running or has returned.
Invoked == pc \in {"conv", "matched"}

\* The needle given to the matcher is narrower and lower than the haystack
\* given to it, so that the valid region has an offset.
NeedleFits ==
    /\ subimg.W < img.W
    /\ subimg.H < img.H
    /\ ValidOffsets # {}

RECURSIVE Pow2(_)
Pow2(n) == IF n = 0 THEN 1 ELSE 2 * Pow2(n - 1)

\* min(imgMaxWidth, originalHaystackWidth), imgMaxWidth after defaulting.
WidthBound == Min2(opts.imgMaxWidth, imgsrc.W)

\* findImage is past its defaulting with imgMinWidth >= 1 and subMaxDiv >= 1.
LoopsBounded ==
    /\ pc \notin {"main", "start"}
    /\ opts.imgMinWidth >= 1
    /\ opts.subMaxDiv >= 1

\* The i-th level visited has width imgMinWidth * 2^(i-1), within the bound,
\* and the j-th divisor visited at a level is 2^(j-1), at most subMaxDiv.
VisitsInOrder ==
    \A i \in 1..Len(visits) :
        /\ visits[i].width = opts.imgMinWidth * Pow2(i - 1)
        /\ visits[i].width <= WidthBound
        /\ \A j \in 1..Len(visits[i].divs) :
               /\ visits[i].divs[j] = Pow2(j - 1)
               /\ visits[i].divs[j] <= opts.subMaxDiv

\* No width of the pyramid is left: the next one is beyond the bound.
AllWidthsVisited == opts.imgMinWidth * Pow2(Len(visits)) > WidthBound

\* Every invocation of findImage returns.
Terminates == (pc = "start") ~> (pc = "done")

----------------------------------------------------------------------------
(* Specification of the workers' row slices, main.go:631-679 *)

MaxSliceCPU == 3
MaxRows == 8

\* A matcher invocation just after its workers are launched, for each number
\* of CPUs up to MaxSliceCPU and each valid region of up to MaxRows rows and
\* two columns.  k is the region's area, so that every worker keeps every
\* offset it scores.
InitSlice ==
    /\ ncpu \in 1..MaxSliceCPU
    /\ \E h \in 0..MaxRows : imgsrc = Ramp(3, h + 1)
    /\ subsrc = Spot(1, 1, Black, Black, <<0, 0>>)
    /\ srcRect = ZeroRect
    /\ rawOpts = [BaseOpts EXCEPT !.k = imgsrc.W * imgsrc.H]
    /\ calls = 1
    /\ first = <<>>
    /\ ulps = {}
    /\ flags = NoFlags
    /\ stdout = <<>>
    /\ origin = NoOrigin
    /\ visits = <<>>
    /\ pc = "conv"
    /\ opts = rawOpts
    /\ imgWidth = imgsrc.W
    /\ img = imgsrc
    /\ div = 1
    /\ subimg = subsrc
    /\ lastTopMatch = RatOfInt(0)
    /\ matches = <<>>
    /\ done = FALSE
    /\ subruns = <<>>
    /\ divMatches = <<>>
    /\ kk = opts.k
    /\ inner = Rect(0, 0, img.W - subimg.W, img.H - subimg.H)
    /\ wpc = [w \in Workers |->
                IF InLoops(inner, w, inner.MinX, ya(inner, w)) THEN "scan" ELSE "send"]
    /\ wx = [w \in Workers |-> inner.MinX]
    /\ wy = [w \in Workers |-> ya(inner, w)]
    /\ wmatches = [w \in Workers |-> <<>>]
    /\ wminSums = [w \in Workers |-> <<>>]
    /\ wsent = [w \in Workers |-> 0]
    /\ closed = FALSE
    /\ recvd = <<>>

NextSlice == \E w \in Workers : WorkerScan(w)

SpecSlice == InitSlice /\ [][NextSlice]_vars

\* The rows worker w's loop `for y := ya; y < yb; y++` visits.
SliceRows(in, w) == ya(in, w)..(yb(in, w) - 1)

\* The rows and the offsets of the valid region.
RegionRows(in) == in.MinY..(in.MaxY - 1)
RegionOffsets(in) == (in.MinX..(in.MaxX - 1)) \X RegionRows(in)

\* The entries (worker, index) of the workers' lists that hold offset p.
Scorers(p) ==
    {e \in Workers \X (1..(Dx(inner) * Dy(inner))) :
        /\ e[2] <= Len(wmatches[e[1]])
        /\ wmatches[e[1]][e[2]].Bounds.MinX = p[1]
        /\ wmatches[e[1]][e[2]].Bounds.MinY = p[2]}

\* Every worker has left its loops.
ScanOver == \A w \in Workers : wpc[w] # "scan"

\* C21: for every number of workers and every height of the valid region,
\* also one below the number of workers, the workers' row slices lie in the
\* region, every row of the region is in exactly one slice, no offset is
\* scored twice, and once the workers have left their loops every offset of
\* the region has been scored by exactly one of them.
C21_SlicesPartition ==
    pc = "conv" =>
        /\ \A w \in Workers : SliceRows(inner, w) \subseteq RegionRows(inner)
        /\ \A y \in RegionRows(inner) :
               Cardinality({w \in Workers : y \in SliceRows(inner, w)}) = 1
        /\ \A p \in RegionOffsets(inner) : Cardinality(Scorers(p)) <= 1
        /\ ScanOver => \A p \in RegionOffsets(inner) : Cardinality(Scorers(p)) = 1

\* Four workers have scored a region of three rows: the first three had no
\* row, the last one scored all six offsets.
C21_Witness ==
    /\ pc = "conv"
    /\ numWorkers = 4
    /\ Dy(inner) = 3
    /\ ScanOver
    /\ \A w \in 0..2 : wmatches[w] = <<>>
    /\ Len(wmatches[3]) = 6

\* How many times m occurs in the sequence s.
Count(s, m) == Cardinality({i \in 1..Len(s) : s[i] = m})

\* The sends completed, and the matches held, by the workers below n.
RECURSIVE SentBelow(_)
SentBelow(n) == IF n = 0 THEN 0 ELSE SentBelow(n - 1) + wsent[n - 1]
RECURSIVE HeldBelow(_)
HeldBelow(n) == IF n = 0 THEN 0 ELSE HeldBelow(n - 1) + Len(wmatches[n - 1])

\* A worker is at a send on the closed channel, or has panicked there.
SendOnClosed ==
    closed /\ \E w \in Workers : wpc[w] = "send" /\ wsent[w] < Len(wmatches[w])

\* C22: in a matcher invocation, under every interleaving, the fan-in has
\* received each match a worker has sent exactly once and nothing else; when
\* the channel is closed every worker has sent all its matches and called
\* wg.Done(), so no worker sends on the closed channel; and when the matcher
\* has sorted and truncated, the channel was closed and every match of every
\* worker had been received.
C22_FanIn ==
    pc \in {"conv", "matched", "panic"} =>
        /\ Len(recvd) = SentBelow(numWorkers)
        /\ \A w \in Workers : \A i \in 1..wsent[w] : Count(recvd, wmatches[w][i]) = 1
        /\ closed => \A w \in Workers : wpc[w] = "done" /\ wsent[w] = Len(wmatches[w])
        /\ ~SendOnClosed
        /\ pc = "matched" => closed /\ Len(recvd) = HeldBelow(numWorkers)

\* The matcher has returned after every worker sent a match, the first one
\* received being the last worker's.
C22_Witness ==
    /\ pc = "matched"
    /\ closed
    /\ \A w \in Workers : wsent[w] >= 1
    /\ recvd[1] = wmatches[numWorkers - 1][1]

\* The worker IDs of every input of the specification.
AllWorkers == 0..(2 * MaxCPU - 1)

\* While the matcher runs some goroutine can take a step: a worker is in its
\* loops, or at a send or at wg.Done(); or wg.Wait() can return and the
\* channel be closed; or the range loop has ended.
ConvCanStep ==
    \/ \E w \in Workers : wpc[w] \in {"scan", "send"}
    \/ ~closed /\ WaitGroupDone
    \/ closed

\* C23: under fair scheduling every invocation of the matcher returns, every
\* worker that is at a send gets to wg.Done(), the matcher is never stuck
\* before it returns, and when it returns the channel is closed and every
\* worker has finished.
C23_MatcherReturns ==
    /\ (pc = "conv") ~> (pc = "matched")
    /\ \A w \in AllWorkers :
           (pc = "conv" /\ w \in DOMAIN wpc /\ wpc[w] = "send")
               ~> (w \in DOMAIN wpc /\ wpc[w] = "done")
    /\ [](pc = "conv" => ConvCanStep)
    /\ [](pc = "matched" => closed /\ \A w \in Workers : wpc[w] = "done")

\* The fan-in has served the first worker, which is done, while the last
\* worker still waits at a send with none of its matches received.
C23_Witness ==
    /\ pc = "conv"
    /\ wpc[0] = "done"
    /\ wsent[0] >= 1
    /\ wpc[numWorkers - 1] = "send"
    /\ wsent[numWorkers - 1] = 0
    /\ Len(wmatches[numWorkers - 1]) >= 1

\* The score is not below the literal 0.0.
NonNegative(score) == score.n >= 0 /\ score.d >= 0

\* The inner step after the matcher returned: its best score is not below 0;
\* at the first divisor of a level lastTopMatch is 0 and the step stores its
\* result and goes on; a step that stops early finds a sub-run before its
\* own, which it marks, and the stored result is that of its own level.
C24_Step ==
    pc = "matched" /\ Len(divMatches) > 0 =>
        /\ NonNegative(divMatches[1].Match)
        /\ pc' # "panic"
        /\ div = 1 =>
               /\ subruns = <<>>
               /\ lastTopMatch = RatOfInt(0)
               /\ ~done' /\ pc' = "inner"
        /\ done' =>
               /\ div > 1
               /\ Len(subruns') >= 2
               /\ subruns'[Len(subruns') - 1].Selected
               /\ origin.width = imgWidth
               /\ subruns[Len(subruns)].Matches = matches

\* C24: every outer level enters its inner loop with lastTopMatch 0 and no
\* score is below 0, so the step at the first divisor never stops early; when
\* a step stops early, an earlier step of the same level has stored a result
\* and a sub-run, and the index len-2 of the sub-run it marks is in range.
C24_FirstStepNeverStops ==
    [][/\ C24_Step
       /\ pc' = "inner" /\ div' = 1 => lastTopMatch' = RatOfInt(0) /\ subruns' = <<>>]_vars

\* The second step of the second level has stopped early and marked the
\* first step's sub-run.
C24_Witness ==
    /\ pc = "outerEnd" /\ done
    /\ Len(visits) = 2
    /\ Len(subruns) = 2
    /\ subruns[1].Selected
    /\ ~subruns[2].Selected

\* The rectangle r lies inside the original haystack, its corners in order.
InHaystack(r) ==
    /\ 0 <= r.MinX /\ r.MinX <= r.MaxX /\ r.MaxX <= imgsrc.W
    /\ 0 <= r.MinY /\ r.MinY <= r.MaxY /\ r.MaxY <= imgsrc.H

\* C25: every rectangle findImage holds as its result, at every level of the
\* pyramid, in every sub-run and at its return, lies inside the original
\* haystack with its corners in order.
C25_RectsInHaystack ==
    /\ \A i \in 1..Len(matches) : InHaystack(matches[i].Bounds)
    /\ \A j \in 1..Len(subruns) :
           \A i \in 1..Len(subruns[j].Matches) : InHaystack(subruns[j].Matches[i].Bounds)

\* findImage returned a rectangle found at a level narrower than the
\* haystack, away from the left edge and reaching beyond that level's width.
C25_Witness ==
    /\ pc = "done" /\ matches # <<>>
    /\ origin.width < imgsrc.W
    /\ \E i \in 1..Len(matches) :
           /\ matches[i].Bounds.MinX > 0
           /\ matches[i].Bounds.MaxX > origin.width
           /\ matches[i].Bounds.MaxY > 0
           /\ InHaystack(matches[i].Bounds)

\* The raw sums of the offsets in O in ascending order, computed from the
\* rasters alone.
RECURSIVE SumsAscending(_)
SumsAscending(O) ==
    IF O = {} THEN <<>>
    ELSE LET o == CHOOSE o \in O : \A p \in O : SumAt(o) <= SumAt(p)
         IN  <<SumAt(o)>> \o SumsAscending(O \ {o})

\* The raw sums of the k entries the matcher returns: the least sums of the
\* valid region, then 0 for each entry past the offsets there are.
ExpectedSums ==
    LET s == SumsAscending(ValidOffsets)
    IN  [i \in 1..kk |-> IF i <= Len(s) THEN s[i] ELSE 0]

\* The offsets whose rectangles the matcher returned.
ReturnedOffsets ==
    {o \in ValidOffsets :
        \E i \in 1..Len(divMatches) :
            divMatches[i].Bounds = Rect(o[1], o[2], o[1] + subimg.W, o[2] + subimg.H)}

\* C26: for a haystack, a needle and k, the scores the matcher returns are
\* the same at every index, hence as a multiset, under every interleaving of
\* the workers and every order of arrival at the fan-in: they are those of
\* ExpectedSums, a function of the rasters and k.  The schedule shows only in
\* the rectangles: an offset that was left out has a raw sum no less than
\* that of every returned entry, so it can replace only an entry of the same
\* raw sum.
C26_ScoresScheduleFree ==
    Returned =>
        LET den == subimg.W * subimg.H * 255 * 3
            expected == ExpectedSums
            leftOut == ValidOffsets \ ReturnedOffsets
        IN  /\ Len(divMatches) = kk
            /\ \A i \in 1..kk :
                   divMatches[i].Match = [n |-> den - expected[i], d |-> den]
            /\ \A o \in leftOut : \A i \in 1..kk : expected[i] <= SumAt(o)

\* The matcher returned with the last worker's match received first, and an
\* offset left out has the raw sum of the last returned entry: which of the
\* two is returned is up to the order of arrival.
C26_Witness ==
    /\ Returned
    /\ wsent[0] >= 1
    /\ recvd[1] \in SeqToSet(wmatches[numWorkers - 1])
    /\ \E o \in ValidOffsets \ ReturnedOffsets : SumAt(o) = RawSum(divMatches[kk])

=========================================================================
